---------------------------- MODULE Spec2Model ----------------------------
(***************************************************************************)
(* A model of the domadapter experiment code:                              *)
(*   - the command-line entry points train_dsn and train_ft                *)
(*     (orchestration/train_dsn.py, orchestration/train_ft.py), one        *)
(*     action per statement group of the function body, with the directory *)
(*     tree, the hyperparameter mapping and the checkpoint callback;       *)
(*   - the DomainAdapter LightningModule (models/domain_adapter.py): its   *)
(*     constructor, configure_optimizers, training_step, validation_step   *)
(*     and validation_epoch_end.                                           *)
(* Python values are tagged records, paths are sequences of components,    *)
(* tensors are sequences of rows.                                          *)
(***************************************************************************)
EXTENDS Integers, Sequences, FiniteSets, TLC

VARIABLES
    \* ---- entry points (one record per launched process) ----
    pc,              \* position of each process in train_dsn / train_ft
    err,             \* the exception that ended the process ("" if none)
    args,            \* the command-line options of the process
    exp_dir,         \* local variable exp_dir (a path)
    base_is_dir,     \* the value exp_dir.is_dir() returned at line 86 / 76
    hyperparams,     \* local variable hyperparams (mapping key -> value)
    dm,              \* local variable dm (the data module)
    project_name,    \* local variable project_name
    model,           \* local variable model (DSN / FT)
    run_id,          \* local variable run_id
    logger,          \* local variable logger (WandbLogger)
    checkpoint_callback, \* the ModelCheckpoint instance
    trainer,         \* the Trainer instance and its progress
    trace,           \* history: the steps the process has completed, in order
    dirs,            \* file system: the directories that exist
    files,           \* file system: path -> content of each file
    used_ids,        \* the run ids wandb has generated so far
    \* ---- DomainAdapter ----
    da,              \* the module object: its attributes and self.hparams
    last,            \* the last method call on the module and what it did
    val_outputs,     \* what the validation steps of the running epoch returned
    \* ---- plotting script (adapter_representations.py) ----
    plot_pc,         \* position of the script
    plot_err,        \* the exception that ended the script ("" if none)
    source_dataset,  \* global source_dataset
    target_dataset,  \* global target_dataset
    temp,            \* file system: the directory ./temp and its entries
    sr,              \* the locals of the running save_representations call
    source_df,       \* global source_df
    target_df,       \* global target_df
    df               \* global df

pvars == <<pc, err, args, exp_dir, base_is_dir, hyperparams, dm, project_name,
           model, run_id, logger, checkpoint_callback, trainer, trace, dirs,
           files, used_ids>>
davars == <<da, last, val_outputs>>
plvars == <<plot_pc, plot_err, source_dataset, target_dataset, temp, sr,
            source_df, target_df, df>>
vars == <<pvars, davars, plvars>>

-----------------------------------------------------------------------------
(* Bounds of the model *)

\* the largest --epochs value tried
MaxEpochs == 2
\* monitored metric values are drawn from 0..MaxMetric
MaxMetric == 2
\* a validation epoch has at most MaxSteps validation steps
MaxSteps == 2
\* len(outputs): the number of hidden-state layers the model returns
NumLayers == 2

-----------------------------------------------------------------------------
(* Python values *)

PyInt(n) == [t |-> "int", i |-> n, s |-> ""]
PyFloat(n) == [t |-> "float", i |-> n, s |-> ""]
PyStr(x) == [t |-> "str", i |-> 0, s |-> x]
PyNone == [t |-> "None", i |-> 0, s |-> ""]

\* the integers whose decimal numerals the model can parse
IntLiterals == 0..9

\* Python int(x): the value, or the exception it raises
IntOf(v) ==
    CASE v.t = "int" -> [ok |-> TRUE, val |-> v, exc |-> ""]
      [] v.t = "float" -> [ok |-> TRUE, val |-> PyInt(v.i), exc |-> ""]
      [] v.t = "None" -> [ok |-> FALSE, val |-> PyNone, exc |-> "TypeError"]
      [] v.t = "str" ->
            IF \E n \in IntLiterals : ToString(n) = v.s
            THEN [ok |-> TRUE,
                  val |-> PyInt(CHOOSE n \in IntLiterals : ToString(n) = v.s),
                  exc |-> ""]
            ELSE [ok |-> FALSE, val |-> PyNone, exc |-> "ValueError"]

\* Python float(x) for the option types click hands over
FloatOf(v) ==
    CASE v.t = "float" -> [ok |-> TRUE, val |-> v, exc |-> ""]
      [] v.t = "int" -> [ok |-> TRUE, val |-> PyFloat(v.i), exc |-> ""]
      [] OTHER -> [ok |-> FALSE, val |-> PyNone, exc |-> "TypeError"]

\* Python str(x)
StrOf(v) ==
    CASE v.t = "str" -> v
      [] v.t = "None" -> PyStr("None")
      [] OTHER -> PyStr(ToString(v.i))

-----------------------------------------------------------------------------
(* Paths (pathlib.Path): sequences of components *)

joinpath(p, parts) == p \o parts

RECURSIVE PathStr(_)
\* str(path)
PathStr(p) ==
    IF Len(p) = 0 THEN "."
    ELSE IF Len(p) = 1 THEN p[1]
    ELSE PathStr(SubSeq(p, 1, Len(p) - 1)) \o "/" \o p[Len(p)]

\* the path and all its ancestors
Ancestors(p) == {SubSeq(p, 1, n) : n \in 1..Len(p)}

RECURSIVE JoinUnderscore(_)
\* "_".join(tokens)
JoinUnderscore(toks) ==
    IF Len(toks) = 1 THEN toks[1]
    ELSE toks[1] \o "_" \o JoinUnderscore(Tail(toks))

\* source_target.split("_")[0], on the tokens the option is made of
SplitFirst(toks) == Head(toks)

EmptyMap == [k \in {} |-> PyNone]


-----------------------------------------------------------------------------
(* The command-line options *)

\* the processes that can be launched
Procs == {1, 2}

Entries == {"train_dsn", "train_ft"}
DataModules == {PyStr("mnli"), PyStr("sa"), PyStr("qa")}
HiddenSizes == {PyStr("4"), PyStr("big")}
Gpus == {PyNone, PyInt(0)}
SourceTargets == {<<"slate", "travel">>, <<"travel", "slate">>}

\* the options click hands to the entry point; source_target is kept as the
\* tokens its "_"-separated string is made of
Options(entry, data_module, hidden_size, gpu, source_target, epochs) ==
    [entry |-> entry,
     bsz |-> PyInt(2),
     dataset_cache_dir |-> PyStr("cache"),
     pretrained_model_name |-> PyStr("bert"),
     train_proportion |-> PyFloat(1),
     dev_proportion |-> PyFloat(1),
     test_proportion |-> PyFloat(1),
     hidden_size |-> hidden_size,
     num_classes |-> PyInt(3),
     data_module |-> data_module,
     max_seq_length |-> PyStr("8"),
     padding |-> PyStr("max_length"),
     source_target |-> source_target,
     exp_dir |-> PyStr("exp"),
     seed |-> PyStr("7"),
     log_freq |-> PyInt(5),
     lr |-> PyFloat(1),
     epochs |-> PyInt(epochs),
     gpu |-> gpu,
     diff_weight |-> PyFloat(1),
     sim_weight |-> PyFloat(1),
     recon_weight |-> PyFloat(1),
     gradient_clip_norm |-> PyFloat(5)]

AllOptions ==
    {Options("train_dsn", d, h, g, st, e) :
        d \in DataModules, h \in HiddenSizes, g \in Gpus,
        st \in SourceTargets, e \in 1..MaxEpochs}
    \cup
    {Options("train_ft", d, PyNone, g, st, e) :
        d \in DataModules, g \in Gpus, st \in SourceTargets, e \in 1..MaxEpochs}

-----------------------------------------------------------------------------
(* train_dsn / train_ft: the pure parts *)

\* train_dsn: exp_dir = Path(exp_dir).joinpath(source_target, "DSN")
DsnBaseDir(a) ==
    joinpath(<<a.exp_dir.s>>, <<JoinUnderscore(a.source_target), "DSN">>)

\* train_ft: exp_dir = Path(exp_dir).joinpath("mnli_ft", source_target.split("_")[0])
FtBaseDir(a) ==
    joinpath(<<a.exp_dir.s>>, <<"mnli_ft", SplitFirst(a.source_target)>>)

BaseDir(a) == IF a.entry = "train_dsn" THEN DsnBaseDir(a) ELSE FtBaseDir(a)

\* the first conversion of the dict display that raises, if any
FirstFailure(convs) ==
    IF \E n \in 1..Len(convs) : ~convs[n].ok
    THEN convs[CHOOSE n \in 1..Len(convs) :
                 ~convs[n].ok /\ \A m \in 1..(n - 1) : convs[m].ok].exc
    ELSE ""

\* train_dsn: the hyperparams dict display, with exp_dir the local variable
DsnHyperparams(a, dir) ==
    LET nc == IntOf(a.num_classes)
        hs == IntOf(a.hidden_size)
        ep == IntOf(a.epochs)
        ms == IntOf(a.max_seq_length)
        dw == FloatOf(a.diff_weight)
        sw == FloatOf(a.sim_weight)
        rw == FloatOf(a.recon_weight)
        exc == FirstFailure(<<nc, hs, ep, ms, dw, sw, rw>>)
    IN  [ok |-> exc = "",
         exc |-> exc,
         map |-> [bsz |-> a.bsz,
                  train_proportion |-> a.train_proportion,
                  dev_proportion |-> a.dev_proportion,
                  test_proportion |-> a.test_proportion,
                  source_target |-> PyStr(JoinUnderscore(a.source_target)),
                  num_classes |-> nc.val,
                  dataset_cache_dir |-> StrOf(a.dataset_cache_dir),
                  exp_dir |-> PyStr(PathStr(dir)),
                  hidden_size |-> hs.val,
                  seed |-> a.seed,
                  learning_rate |-> a.lr,
                  epochs |-> ep.val,
                  gpu |-> a.gpu,
                  pretrained_model_name |-> StrOf(a.pretrained_model_name),
                  max_seq_length |-> ms.val,
                  padding |-> StrOf(a.padding),
                  diff_weight |-> dw.val,
                  sim_weight |-> sw.val,
                  recon_weight |-> rw.val]]

\* train_ft: the hyperparams dict display
FtHyperparams(a, dir) ==
    LET nc == IntOf(a.num_classes)
        ep == IntOf(a.epochs)
        ms == IntOf(a.max_seq_length)
        exc == FirstFailure(<<nc, ep, ms>>)
    IN  [ok |-> exc = "",
         exc |-> exc,
         map |-> [bsz |-> a.bsz,
                  train_proportion |-> a.train_proportion,
                  dev_proportion |-> a.dev_proportion,
                  test_proportion |-> a.test_proportion,
                  num_classes |-> nc.val,
                  source_target |-> PyStr(JoinUnderscore(a.source_target)),
                  dataset_cache_dir |-> StrOf(a.dataset_cache_dir),
                  exp_dir |-> PyStr(PathStr(dir)),
                  seed |-> a.seed,
                  learning_rate |-> a.lr,
                  epochs |-> ep.val,
                  gpu |-> a.gpu,
                  pretrained_model_name |-> StrOf(a.pretrained_model_name),
                  max_seq_length |-> ms.val,
                  padding |-> StrOf(a.padding),
                  gradient_clip_norm |-> a.gradient_clip_norm]]

\* faulty variant: the second branch written as a plain else
DataModuleClassElse(a) ==
    IF a.data_module = PyStr("mnli") THEN "DataModuleSourceTarget"
    ELSE "SADataModuleSourceTarget"

\* the data module class the if / elif picks, "" when neither branch is taken
DataModuleClass(a) ==
    IF a.data_module = PyStr("mnli") THEN "DataModuleSourceTarget"
    ELSE IF a.data_module = PyStr("sa") THEN "SADataModuleSourceTarget"
    ELSE ""

\* project_name of the branch taken
ProjectName(a) ==
    IF a.data_module = PyStr("mnli") THEN "MNLI_" \o a.pretrained_model_name.s
    ELSE "SA_" \o a.pretrained_model_name.s

\* the LightningModule class the entry point trains
ModelClass(a) == IF a.entry = "train_dsn" THEN "DSN" ELSE "FT"

\* faulty variant: the two entry points' modes exchanged
CheckpointModeSwapped(a) == IF a.entry = "train_dsn" THEN "min" ELSE "max"

\* ModelCheckpoint(mode=...)
CheckpointMode(a) == IF a.entry = "train_dsn" THEN "max" ELSE "min"

\* ModelCheckpoint(monitor=...)
CheckpointMonitor(a) ==
    IF a.entry = "train_dsn" THEN "source_val/f1" ELSE "val/loss"

\* ModelCheckpoint(save_top_k=...)
SaveTopK == 1

\* the statements of the function body, in program order
StepOrder ==
    <<"check_base", "mk_base", "seed", "hparams", "choose_dm", "prepare_data",
      "model", "run_id", "logger", "mk_ckpt", "callback", "trainer",
      "setup_fit", "fit", "setup_test", "test", "dump", "cleanup">>

\* faulty variant: the test stage written before the fit stage
AfterTestFirst(s) ==
    LET order == <<"check_base", "mk_base", "seed", "hparams", "choose_dm",
                   "prepare_data", "model", "run_id", "logger", "mk_ckpt",
                   "callback", "trainer", "setup_test", "test", "setup_fit",
                   "fit", "dump", "cleanup">>
        n == CHOOSE k \in 1..Len(order) : order[k] = s
    IN  IF n = Len(order) THEN "done" ELSE order[n + 1]

\* the statement that follows statement s
After(s) ==
    LET n == CHOOSE k \in 1..Len(StepOrder) : StepOrder[k] = s
    IN  IF n = Len(StepOrder) THEN "done" ELSE StepOrder[n + 1]

-----------------------------------------------------------------------------
(* json.dump / json.load of the value types the mapping holds *)

JsonOf(v) ==
    CASE v.t = "None" -> [j |-> "null", i |-> 0, s |-> "", frac |-> FALSE]
      [] v.t = "str" -> [j |-> "string", i |-> 0, s |-> v.s, frac |-> FALSE]
      [] v.t = "int" -> [j |-> "number", i |-> v.i, s |-> "", frac |-> FALSE]
      [] v.t = "float" -> [j |-> "number", i |-> v.i, s |-> "", frac |-> TRUE]

PyOf(x) ==
    CASE x.j = "null" -> PyNone
      [] x.j = "string" -> PyStr(x.s)
      [] x.j = "number" -> IF x.frac THEN PyFloat(x.i) ELSE PyInt(x.i)

\* json.dump(mapping, fp): the JSON object written
JsonDump(m) == [k \in DOMAIN m |-> JsonOf(m[k])]

\* json.load of an object
JsonLoad(o) == [k \in DOMAIN o |-> PyOf(o[k])]


-----------------------------------------------------------------------------
(* Unbound local variables *)

NoDm == [bound |-> FALSE, class |-> "", hparams |-> EmptyMap,
         prepared |-> FALSE, stage |-> ""]
NoModel == [bound |-> FALSE, class |-> "", hparams |-> EmptyMap]
NoLogger == [bound |-> FALSE, save_dir |-> <<>>, id |-> "", project |-> "",
             job_type |-> "", group |-> ""]
NoCallback == [bound |-> FALSE, dirpath |-> <<>>, save_top_k |-> 0,
               mode |-> "", monitor |-> "", best_k_models |-> {}]
NoTrainer == [bound |-> FALSE, max_epochs |-> 0, current_epoch |-> 0,
              monitored |-> <<>>]

\* the ids wandb.util.generate_id() can return
IdPool == {"r1", "r2"}

-----------------------------------------------------------------------------
(* pytorch_lightning ModelCheckpoint, as the entry points configure it *)

\* the file a checkpoint of the given epoch is saved to
CheckpointPath(cb, epoch) ==
    joinpath(cb.dirpath, <<"epoch=" \o ToString(epoch) \o ".ckpt">>)

\* monitor_op of the mode: torch.lt for "min", torch.gt for "max"
MonitorOp(mode, current, best) ==
    IF mode = "min" THEN current < best ELSE current > best

\* the worst of the k best checkpoints kept
KthBest(cb) ==
    CHOOSE e \in cb.best_k_models :
        \A f \in cb.best_k_models : ~MonitorOp(cb.mode, e.score, f.score)

\* check_monitor_top_k
CheckMonitorTopK(cb, current) ==
    IF Cardinality(cb.best_k_models) < cb.save_top_k THEN TRUE
    ELSE MonitorOp(cb.mode, current, KthBest(cb).score)

-----------------------------------------------------------------------------
(* train_dsn / train_ft: the steps *)

Goto(p, s) == pc' = [pc EXCEPT ![p] = s]

Did(p, name) == trace' = [trace EXCEPT ![p] = Append(@, name)]

\* an uncaught exception ends the process
Raise(p, e) ==
    /\ pc' = [pc EXCEPT ![p] = "error"]
    /\ err' = [err EXCEPT ![p] = e]

\* local variable checkpoints_dir
CheckpointsDir(p) == joinpath(exp_dir[p], <<"checkpoints">>)

\* faulty variant: hparams.json placed in the base directory instead of the run's
HparamsFileInBase(p) == joinpath(BaseDir(args[p]), <<"hparams.json">>)

\* local variable hparams_file
HparamsFile(p) == joinpath(exp_dir[p], <<"hparams.json">>)

\* exp_dir = Path(exp_dir).joinpath(...); exp_dir.is_dir()
CheckBase(p) ==
    /\ pc[p] = "check_base"
    /\ LET base == BaseDir(args[p]) IN
         /\ exp_dir' = [exp_dir EXCEPT ![p] = base]
         /\ base_is_dir' = [base_is_dir EXCEPT ![p] = base \in dirs]
         /\ Goto(p, IF base \in dirs THEN After("mk_base") ELSE After("check_base"))
    /\ Did(p, "check_base")
    /\ UNCHANGED <<err, args, hyperparams, dm, project_name, model, run_id,
                   logger, checkpoint_callback, trainer, dirs, files, used_ids>>

\* exp_dir.mkdir(parents=True)
MkBase(p) ==
    /\ pc[p] = "mk_base"
    /\ IF exp_dir[p] \in dirs
       THEN /\ Raise(p, "FileExistsError")
            /\ UNCHANGED <<dirs, trace>>
       ELSE /\ dirs' = dirs \cup Ancestors(exp_dir[p])
            /\ Goto(p, After("mk_base"))
            /\ Did(p, "mk_base")
            /\ UNCHANGED err
    /\ UNCHANGED <<args, exp_dir, base_is_dir, hyperparams, dm, project_name,
                   model, run_id, logger, checkpoint_callback, trainer, files,
                   used_ids>>

\* seed_everything(seed)
Seed(p) ==
    /\ pc[p] = "seed"
    /\ Goto(p, After("seed"))
    /\ Did(p, "seed")
    /\ UNCHANGED <<err, args, exp_dir, base_is_dir, hyperparams, dm,
                   project_name, model, run_id, logger, checkpoint_callback,
                   trainer, dirs, files, used_ids>>

\* hyperparams = {...}
BuildHyperparams(p) ==
    /\ pc[p] = "hparams"
    /\ LET h == IF args[p].entry = "train_dsn"
                THEN DsnHyperparams(args[p], exp_dir[p])
                ELSE FtHyperparams(args[p], exp_dir[p])
       IN  IF h.ok
           THEN /\ hyperparams' = [hyperparams EXCEPT ![p] = h.map]
                /\ Goto(p, After("hparams"))
                /\ Did(p, "hparams")
                /\ UNCHANGED err
           ELSE /\ Raise(p, h.exc)
                /\ UNCHANGED <<hyperparams, trace>>
    /\ UNCHANGED <<args, exp_dir, base_is_dir, dm, project_name, model, run_id,
                   logger, checkpoint_callback, trainer, dirs, files, used_ids>>

\* if data_module == "mnli": ... elif data_module == "sa": ...
ChooseDataModule(p) ==
    /\ pc[p] = "choose_dm"
    /\ LET class == DataModuleClass(args[p]) IN
         IF class # ""
         THEN /\ dm' = [dm EXCEPT ![p] =
                          [bound |-> TRUE, class |-> class,
                           hparams |-> hyperparams[p], prepared |-> FALSE,
                           stage |-> ""]]
              /\ project_name' = [project_name EXCEPT ![p] = ProjectName(args[p])]
         ELSE UNCHANGED <<dm, project_name>>
    /\ Goto(p, After("choose_dm"))
    /\ Did(p, "choose_dm")
    /\ UNCHANGED <<err, args, exp_dir, base_is_dir, hyperparams, model, run_id,
                   logger, checkpoint_callback, trainer, dirs, files, used_ids>>

\* dm.prepare_data()
PrepareData(p) ==
    /\ pc[p] = "prepare_data"
    /\ IF ~dm[p].bound
       THEN /\ Raise(p, "UnboundLocalError")
            /\ UNCHANGED <<dm, trace>>
       ELSE \E ok \in BOOLEAN :
              IF ok
              THEN /\ dm' = [dm EXCEPT ![p].prepared = TRUE]
                   /\ Goto(p, After("prepare_data"))
                   /\ Did(p, "prepare_data")
                   /\ UNCHANGED err
              ELSE /\ Raise(p, "DataError")
                   /\ UNCHANGED <<dm, trace>>
    /\ UNCHANGED <<args, exp_dir, base_is_dir, hyperparams, project_name, model,
                   run_id, logger, checkpoint_callback, trainer, dirs, files,
                   used_ids>>

\* model = DSN(hyperparams) / model = FT(hyperparams)
BuildModel(p) ==
    /\ pc[p] = "model"
    /\ \E ok \in BOOLEAN :
         IF ok
         THEN /\ model' = [model EXCEPT ![p] =
                             [bound |-> TRUE, class |-> ModelClass(args[p]),
                              hparams |-> hyperparams[p]]]
              /\ Goto(p, After("model"))
              /\ Did(p, "model")
              /\ UNCHANGED err
         ELSE /\ Raise(p, "ModelLoadError")
              /\ UNCHANGED <<model, trace>>
    /\ UNCHANGED <<args, exp_dir, base_is_dir, hyperparams, dm, project_name,
                   run_id, logger, checkpoint_callback, trainer, dirs, files,
                   used_ids>>

\* faulty variant: the rebinding of exp_dir also stored into the mapping
GenerateRunIdStored(p) ==
    /\ pc[p] = "run_id"
    /\ \E id \in IdPool \ used_ids :
         /\ run_id' = [run_id EXCEPT ![p] = id]
         /\ used_ids' = used_ids \cup {id}
         /\ exp_dir' = [exp_dir EXCEPT ![p] = joinpath(@, <<id>>)]
         /\ hyperparams' = [hyperparams EXCEPT
               ![p]["exp_dir"] = PyStr(PathStr(joinpath(exp_dir[p], <<id>>)))]
    /\ Goto(p, After("run_id"))
    /\ Did(p, "run_id")
    /\ UNCHANGED <<err, args, base_is_dir, dm, project_name, model, logger,
                   checkpoint_callback, trainer, dirs, files>>

\* run_id = wandb.util.generate_id(); exp_dir = exp_dir.joinpath(run_id)
GenerateRunId(p) ==
    /\ pc[p] = "run_id"
    /\ \E id \in IdPool \ used_ids :
         /\ run_id' = [run_id EXCEPT ![p] = id]
         /\ used_ids' = used_ids \cup {id}
         /\ exp_dir' = [exp_dir EXCEPT ![p] = joinpath(@, <<id>>)]
    /\ Goto(p, After("run_id"))
    /\ Did(p, "run_id")
    /\ UNCHANGED <<err, args, base_is_dir, hyperparams, dm, project_name, model,
                   logger, checkpoint_callback, trainer, dirs, files>>

\* logger = WandbLogger(save_dir=exp_dir, id=run_id, project=project_name, ...)
BuildLogger(p) ==
    /\ pc[p] = "logger"
    /\ logger' = [logger EXCEPT ![p] =
          [bound |-> TRUE, save_dir |-> exp_dir[p], id |-> run_id[p],
           project |-> project_name[p],
           job_type |-> IF args[p].entry = "train_dsn" THEN "DSN"
                        ELSE SplitFirst(args[p].source_target),
           group |-> IF args[p].entry = "train_dsn"
                     THEN JoinUnderscore(args[p].source_target)
                     ELSE "fine-tune"]]
    /\ Goto(p, After("logger"))
    /\ Did(p, "logger")
    /\ UNCHANGED <<err, args, exp_dir, base_is_dir, hyperparams, dm,
                   project_name, model, run_id, checkpoint_callback, trainer,
                   dirs, files, used_ids>>

\* checkpoints_dir = exp_dir.joinpath("checkpoints"); checkpoints_dir.mkdir(parents=True)
MkCheckpointsDir(p) ==
    /\ pc[p] = "mk_ckpt"
    /\ IF CheckpointsDir(p) \in dirs
       THEN /\ Raise(p, "FileExistsError")
            /\ UNCHANGED <<dirs, trace>>
       ELSE /\ dirs' = dirs \cup Ancestors(CheckpointsDir(p))
            /\ Goto(p, After("mk_ckpt"))
            /\ Did(p, "mk_ckpt")
            /\ UNCHANGED err
    /\ UNCHANGED <<args, exp_dir, base_is_dir, hyperparams, dm, project_name,
                   model, run_id, logger, checkpoint_callback, trainer, files,
                   used_ids>>

\* checkpoint_callback = ModelCheckpoint(...); callbacks = [checkpoint_callback]
BuildCallback(p) ==
    /\ pc[p] = "callback"
    /\ checkpoint_callback' = [checkpoint_callback EXCEPT ![p] =
          [bound |-> TRUE, dirpath |-> CheckpointsDir(p),
           save_top_k |-> SaveTopK, mode |-> CheckpointMode(args[p]),
           monitor |-> CheckpointMonitor(args[p]), best_k_models |-> {}]]
    /\ Goto(p, After("callback"))
    /\ Did(p, "callback")
    /\ UNCHANGED <<err, args, exp_dir, base_is_dir, hyperparams, dm,
                   project_name, model, run_id, logger, trainer, dirs, files,
                   used_ids>>

\* trainer = Trainer(..., max_epochs=epochs, ...)
BuildTrainer(p) ==
    /\ pc[p] = "trainer"
    /\ \E ok \in BOOLEAN :
         IF ok
         THEN /\ trainer' = [trainer EXCEPT ![p] =
                   [bound |-> TRUE, max_epochs |-> args[p].epochs.i,
                    current_epoch |-> 0, monitored |-> <<>>]]
              /\ Goto(p, After("trainer"))
              /\ Did(p, "trainer")
              /\ UNCHANGED err
         ELSE /\ Raise(p, "MisconfigurationException")
              /\ UNCHANGED <<trainer, trace>>
    /\ UNCHANGED <<args, exp_dir, base_is_dir, hyperparams, dm, project_name,
                   model, run_id, logger, checkpoint_callback, dirs, files,
                   used_ids>>

\* dm.setup(stage) and the loaders of the stage
SetupStage(p, step, stage) ==
    /\ pc[p] = step
    /\ \E ok \in BOOLEAN :
         IF ok
         THEN /\ dm' = [dm EXCEPT ![p].stage = stage]
              /\ Goto(p, After(step))
              /\ Did(p, step)
              /\ UNCHANGED err
         ELSE /\ Raise(p, "DataError")
              /\ UNCHANGED <<dm, trace>>
    /\ UNCHANGED <<args, exp_dir, base_is_dir, hyperparams, project_name, model,
                   run_id, logger, checkpoint_callback, trainer, dirs, files,
                   used_ids>>

\* dm.setup("fit"); train_loader = ...; val_loader = ...
SetupFit(p) == SetupStage(p, "setup_fit", "fit")

\* dm.setup("test"); test_loader = ...
SetupTest(p) == SetupStage(p, "setup_test", "test")

\* trainer.fit(model, train_loader, val_loader) is entered
FitCall(p) ==
    /\ pc[p] = "fit"
    /\ Goto(p, "fitting")
    /\ Did(p, "fit_call")
    /\ UNCHANGED <<err, args, exp_dir, base_is_dir, hyperparams, dm,
                   project_name, model, run_id, logger, checkpoint_callback,
                   trainer, dirs, files, used_ids>>

\* one epoch of trainer.fit: the validation epoch logs the monitored metric and
\* the checkpoint callback runs (_save_top_k_checkpoint, _update_best_and_save)
FitEpoch(p) ==
    /\ pc[p] = "fitting"
    /\ trainer[p].current_epoch < trainer[p].max_epochs
    /\ \E current \in 0..MaxMetric :
         LET cb == checkpoint_callback[p]
             epoch == trainer[p].current_epoch
             filepath == CheckpointPath(cb, epoch)
             full == Cardinality(cb.best_k_models) = cb.save_top_k
             del == IF full THEN {KthBest(cb)} ELSE {}
             delpaths == {e.path : e \in del} \ {filepath}
         IN  /\ trainer' = [trainer EXCEPT
                   ![p].current_epoch = epoch + 1,
                   ![p].monitored = Append(@, current)]
             /\ IF CheckMonitorTopK(cb, current)
                THEN /\ checkpoint_callback' = [checkpoint_callback EXCEPT
                          ![p].best_k_models =
                              (@ \ del) \cup {[path |-> filepath, score |-> current]}]
                     /\ files' = [f \in (DOMAIN files \cup {filepath}) \ delpaths |->
                                    IF f = filepath
                                    THEN [kind |-> "ckpt", obj |-> EmptyMap,
                                          epoch |-> epoch, score |-> current]
                                    ELSE files[f]]
                ELSE UNCHANGED <<checkpoint_callback, files>>
    /\ UNCHANGED <<pc, err, args, exp_dir, base_is_dir, hyperparams, dm,
                   project_name, model, run_id, logger, trace, dirs, used_ids>>

\* trainer.fit raises (terminate_on_nan, an I/O error, ...)
FitRaise(p) ==
    /\ pc[p] = "fitting"
    /\ Raise(p, "TrainingError")
    /\ UNCHANGED <<args, exp_dir, base_is_dir, hyperparams, dm, project_name,
                   model, run_id, logger, checkpoint_callback, trainer, trace,
                   dirs, files, used_ids>>

\* trainer.fit returns after max_epochs epochs
FitReturn(p) ==
    /\ pc[p] = "fitting"
    /\ trainer[p].current_epoch = trainer[p].max_epochs
    /\ Goto(p, After("fit"))
    /\ Did(p, "fit")
    /\ UNCHANGED <<err, args, exp_dir, base_is_dir, hyperparams, dm,
                   project_name, model, run_id, logger, checkpoint_callback,
                   trainer, dirs, files, used_ids>>

\* trainer.test(model, test_loader) is entered
TestCall(p) ==
    /\ pc[p] = "test"
    /\ Goto(p, "testing")
    /\ Did(p, "test_call")
    /\ UNCHANGED <<err, args, exp_dir, base_is_dir, hyperparams, dm,
                   project_name, model, run_id, logger, checkpoint_callback,
                   trainer, dirs, files, used_ids>>

\* trainer.test returns or raises
TestReturn(p) ==
    /\ pc[p] = "testing"
    /\ \E ok \in BOOLEAN :
         IF ok
         THEN /\ Goto(p, After("test"))
              /\ Did(p, "test")
              /\ UNCHANGED err
         ELSE /\ Raise(p, "TestError")
              /\ UNCHANGED trace
    /\ UNCHANGED <<args, exp_dir, base_is_dir, hyperparams, dm, project_name,
                   model, run_id, logger, checkpoint_callback, trainer, dirs,
                   files, used_ids>>

\* hparams_file = exp_dir.joinpath("hparams.json"); json.dump(hyperparams, fp)
DumpHparams(p) ==
    /\ pc[p] = "dump"
    /\ IF exp_dir[p] \in dirs
       THEN /\ files' = [f \in DOMAIN files \cup {HparamsFile(p)} |->
                           IF f = HparamsFile(p)
                           THEN [kind |-> "json",
                                 obj |-> JsonDump(hyperparams[p]),
                                 epoch |-> 0, score |-> 0]
                           ELSE files[f]]
            /\ Goto(p, After("dump"))
            /\ Did(p, "dump")
            /\ UNCHANGED err
       ELSE /\ Raise(p, "FileNotFoundError")
            /\ UNCHANGED <<files, trace>>
    /\ UNCHANGED <<args, exp_dir, base_is_dir, hyperparams, dm, project_name,
                   model, run_id, logger, checkpoint_callback, trainer, dirs,
                   used_ids>>

\* del model; gc.collect()
Cleanup(p) ==
    /\ pc[p] = "cleanup"
    /\ model' = [model EXCEPT ![p].bound = FALSE]
    /\ Goto(p, After("cleanup"))
    /\ Did(p, "cleanup")
    /\ UNCHANGED <<err, args, exp_dir, base_is_dir, hyperparams, dm,
                   project_name, run_id, logger, checkpoint_callback, trainer,
                   dirs, files, used_ids>>


-----------------------------------------------------------------------------
(* Tensors: a tensor is the sequence of its rows along dim 0 *)

\* torch.cat((a, b), axis=0)
cat(a, b) == a \o b

Min(a, b) == IF a < b THEN a ELSE b

Abs(x) == IF x < 0 THEN -x ELSE x

\* the chunks torch.split(tensor, split_size, dim=0) returns, split_size > 0
split(tensor, split_size) ==
    LET n == Len(tensor)
        chunks == IF n = 0 THEN 1 ELSE (n + split_size - 1) \div split_size
    IN  [k \in 1..chunks |->
            SubSeq(tensor, (k - 1) * split_size + 1, Min(k * split_size, n))]

RECURSIVE SumSeq(_)
SumSeq(xs) == IF Len(xs) = 0 THEN 0 ELSE Head(xs) + SumSeq(Tail(xs))

RECURSIVE Gcd(_, _)
Gcd(a, b) == IF b = 0 THEN a ELSE Gcd(b, a % b)

RECURSIVE LcmUpTo(_)
\* lcm(1, ..., n)
LcmUpTo(n) ==
    IF n <= 1 THEN 1 ELSE (LcmUpTo(n - 1) * n) \div Gcd(LcmUpTo(n - 1), n)

RECURSIVE Pow(_, _)
Pow(b, e) == IF e = 0 THEN 1 ELSE b * Pow(b, e - 1)

-----------------------------------------------------------------------------
(* CMD, the central moment discrepancy (domadapter.divergences.cmd_divergence) *)

\* the number of moments compared
NMoments == 2

\* the numbers of source/target pairs a batch can hold
BatchSizes == {1, 2}

\* the largest number of rows a part of a split tensor can have
MaxPart == 2 * (CHOOSE n \in BatchSizes : \A m \in BatchSizes : m <= n) - 1

\* real values are held exactly, in units of 1 / Unit
Unit == Pow(LcmUpTo(MaxPart), NMoments + 1)

\* the k-th moment of the rows of x: the mean for k = 1, else the k-th central
\* moment mean((x - mean(x))^k), in units of 1 / Unit
Moment(x, k) ==
    LET n == Len(x)
        total == SumSeq(x)
    IN  IF k = 1 THEN total * (Unit \div n)
        ELSE SumSeq([r \in 1..n |-> Pow(n * x[r] - total, k)])
                 * (Unit \div Pow(n, k + 1))

\* CMD.calculate(src_hidden, trg_hidden): the distance of the means plus the
\* distances of the central moments 2..NMoments
calculate(src_hidden, trg_hidden) ==
    SumSeq([k \in 1..NMoments |->
               Abs(Moment(src_hidden, k) - Moment(trg_hidden, k))])

-----------------------------------------------------------------------------
(* DomainAdapter *)

\* token ids of an example
Tokens == {0, 1}

PairKeys == {"source_input_ids", "target_input_ids",
             "source_attention_mask", "target_attention_mask"}

\* a batch: its keys, the rows of the source and target input ids, and the
\* number of rows of batch["input_ids"] when the batch has that key
Batches ==
    UNION {
        {[keys |-> PairKeys, source |-> src, target |-> trg, input_ids_rows |-> 0]
            : src \in [1..n -> Tokens], trg \in [1..n -> Tokens]}
        \cup
        {[keys |-> PairKeys \cup {"input_ids"}, source |-> src, target |-> trg,
          input_ids_rows |-> m]
            : src \in [1..n -> Tokens], trg \in [1..n -> Tokens],
              m \in {n, 2 * n, 2 * n + 2}}
      : n \in BatchSizes}

NoBatch == [keys |-> {}, source |-> <<>>, target |-> <<>>, input_ids_rows |-> 0]

\* the hyperparameter mappings a DomainAdapter is constructed from
DaHparams ==
    {EmptyMap,
     [pretrained_model_name |-> PyStr("bert"),
      domain_adapter_name |-> PyStr("adapter")],
     [pretrained_model_name |-> PyStr("bert"),
      domain_adapter_name |-> PyStr("adapter"),
      learning_rate |-> PyFloat(1), betas |-> PyFloat(1), eps |-> PyFloat(1),
      weight_decay |-> PyFloat(1)]}

\* the hidden state the pretrained model gives a token at a layer
Embed(layer, token) == token * (1 + (layer % 2))

\* forward: hidden_states, one tensor per layer with one row per input row
forward(input_ids) ==
    [layer \in 1..NumLayers |->
        [r \in 1..Len(input_ids) |-> Embed(layer, input_ids[r])]]

\* the attributes __init__ defines on the module
InitAttrs == {"hparams", "config", "model", "criterion"}

\* what configure_optimizers reads, in evaluation order
OptimizerReads ==
    <<[kind |-> "attr", name |-> "model"],
      [kind |-> "hparam", name |-> "learning_rate"],
      [kind |-> "hparam", name |-> "betas"],
      [kind |-> "hparam", name |-> "eps"],
      [kind |-> "hparam", name |-> "weight_decay"],
      [kind |-> "attr", name |-> "scheduler_factor"],
      [kind |-> "attr", name |-> "scheduler_patience"],
      [kind |-> "attr", name |-> "scheduler_threshold"],
      [kind |-> "attr", name |-> "scheduler_cooldown"],
      [kind |-> "attr", name |-> "scheduler_eps"]>>

\* whether the module defines what the read asks for
Defined(d, read) ==
    IF read.kind = "attr" THEN read.name \in d.attrs
    ELSE read.name \in DOMAIN d.hparams

\* the lr_scheduler entry configure_optimizers returns
SchedulerEntry ==
    [scheduler |-> "ReduceLROnPlateau", mode |-> "min",
     reduce_lr_on_plateau |-> TRUE, monitor |-> "train/divergence",
     interval |-> "epoch"]

Rat(n, d) == [num |-> n, den |-> d]

NoCall ==
    [op |-> "", batch |-> NoBatch, status |-> "", missing |-> "",
     keys_read |-> {}, outputs |-> <<>>, parts |-> <<>>, ret_key |-> "",
     ret |-> 0, log_name |-> "", log_value |-> Rat(0, 1), handed |-> <<>>,
     handed_after |-> <<>>, optimizers |-> 0, schedulers |-> <<>>]

RECURSIVE LayerLoop(_, _, _, _)
\* for num in range(len(outputs)): split, criterion.calculate, divergence +=
LayerLoop(batch, outputs, num, acc) ==
    IF num > Len(outputs) THEN acc
    ELSE IF "input_ids" \notin batch.keys
    THEN [acc EXCEPT !.status = "KeyError", !.missing = "input_ids",
                     !.keys_read = @ \cup {"input_ids"}]
    ELSE LET split_size == batch.input_ids_rows \div 2
             seen == [acc EXCEPT !.keys_read = @ \cup {"input_ids"}]
         IN  IF split_size = 0 /\ Len(outputs[num]) # 0
             THEN [seen EXCEPT !.status = "RuntimeError"]
             ELSE LET chunks == split(outputs[num], split_size) IN
                  IF Len(chunks) # 2
                  THEN [seen EXCEPT !.status = "ValueError"]
                  ELSE LayerLoop(batch, outputs, num + 1,
                         [seen EXCEPT
                            !.parts = Append(@, <<chunks[1], chunks[2]>>),
                            !.ret = @ + calculate(chunks[1], chunks[2])])

\* the body training_step and validation_step share, up to the logging
StepBody(op, batch) ==
    LET reads == <<"source_input_ids", "target_input_ids",
                   "source_attention_mask", "target_attention_mask">>
        start == [NoCall EXCEPT !.op = op, !.batch = batch, !.status = "ok"]
    IN  IF \E n \in 1..Len(reads) : reads[n] \notin batch.keys
        THEN LET n == CHOOSE k \in 1..Len(reads) :
                        /\ reads[k] \notin batch.keys
                        /\ \A m \in 1..(k - 1) : reads[m] \in batch.keys
             IN  [start EXCEPT !.status = "KeyError", !.missing = reads[n],
                               !.keys_read = {reads[m] : m \in 1..n}]
        ELSE LET input_ids == cat(batch.source, batch.target)
                 outputs == forward(input_ids)
             IN  LayerLoop(batch, outputs, 1,
                    [start EXCEPT !.keys_read = {reads[m] : m \in 1..Len(reads)},
                                  !.outputs = outputs])

\* a step that returned: the metric it logs and the dict it returns
Returned(res, name) ==
    IF res.status = "ok"
    THEN [res EXCEPT !.ret_key = name, !.log_name = name,
                     !.log_value = Rat(res.ret, 1)]
    ELSE res

\* faulty variant: the stacked values summed instead of averaged
StackSum(outputs) ==
    Rat(SumSeq([n \in 1..Len(outputs) |-> outputs[n]["val/divergence"]]), 1)

\* torch.stack([x['val/divergence'] for x in outputs]).mean()
StackMean(outputs) ==
    Rat(SumSeq([n \in 1..Len(outputs) |-> outputs[n]["val/divergence"]]),
        Len(outputs))

\* DomainAdapter(hparams)
Construct ==
    /\ da.state = "new"
    /\ \E hparams \in DaHparams :
         LET reads == <<"pretrained_model_name", "domain_adapter_name">>
             ok == \A n \in 1..Len(reads) : reads[n] \in DOMAIN hparams
         IN  /\ da' = [state |-> IF ok THEN "ready" ELSE "failed",
                       attrs |-> IF ok THEN InitAttrs ELSE {"hparams"},
                       hparams |-> hparams]
             /\ last' = [NoCall EXCEPT !.op = "__init__",
                                       !.status = IF ok THEN "ok" ELSE "KeyError"]
    /\ UNCHANGED <<val_outputs, pvars>>

\* configure_optimizers, called outside the validation loop
ConfigureOptimizers ==
    /\ da.state = "ready"
    /\ Len(val_outputs) = 0
    /\ LET bad == {n \in 1..Len(OptimizerReads) : ~Defined(da, OptimizerReads[n])}
       IN  IF bad = {}
           THEN last' = [NoCall EXCEPT !.op = "configure_optimizers",
                                       !.status = "ok", !.optimizers = 1,
                                       !.schedulers = <<SchedulerEntry>>]
           ELSE LET first == OptimizerReads[CHOOSE n \in bad : \A m \in bad : n <= m]
                IN  last' = [NoCall EXCEPT
                               !.op = "configure_optimizers",
                               !.status = IF first.kind = "attr"
                                          THEN "AttributeError" ELSE "KeyError",
                               !.missing = first.name]
    /\ UNCHANGED <<da, val_outputs, pvars>>

\* training_step(batch, batch_idx), called outside the validation loop
TrainingStep ==
    /\ da.state = "ready"
    /\ Len(val_outputs) = 0
    /\ \E batch \in Batches :
         last' = Returned(StepBody("training_step", batch), "train/divergence")
    /\ UNCHANGED <<da, val_outputs, pvars>>

\* validation_step(batch, batch_idx); the loop collects what it returns, and an
\* exception ends the epoch
ValidationStep ==
    /\ da.state = "ready"
    /\ Len(val_outputs) < MaxSteps
    /\ \E batch \in Batches :
         LET res == Returned(StepBody("validation_step", batch), "val/divergence")
         IN  /\ last' = res
             /\ val_outputs' =
                   IF res.status = "ok"
                   THEN Append(val_outputs, (res.ret_key :> res.ret))
                   ELSE <<>>
    /\ UNCHANGED <<da, pvars>>

\* validation_epoch_end(outputs), called with the outputs of the epoch's steps
ValidationEpochEnd ==
    /\ da.state = "ready"
    /\ Len(val_outputs) > 0
    /\ last' = [NoCall EXCEPT !.op = "validation_epoch_end", !.status = "ok",
                              !.handed = val_outputs,
                              !.handed_after = val_outputs,
                              !.log_name = "val/divergence",
                              !.log_value = StackMean(val_outputs)]
    /\ val_outputs' = <<>>
    /\ UNCHANGED <<da, pvars>>

-----------------------------------------------------------------------------
(* utils/plotting/adapter_representations.py: the script body from the two  *)
(* save_representations calls to the concatenated data frame                *)

\* BATCH_SIZE = 8
BATCH_SIZE == 8

\* range(0,12): the encoder layers a row is made for
EncoderLayers == 12

\* the longest dataset tried
MaxLen == 9

\* source, target = args.source.split("/")[-2].split("_")
source == "slate"
target == "travel"

\* load_dataset("csv", ...)["train"]: example k of the file of the given domain
Example(domain, k) ==
    [premise |-> <<domain, "premise", k>>, hypothesis |-> <<domain, "hypothesis", k>>]

Dataset(domain, n) == [k \in 1..n |-> Example(domain, k - 1)]

\* a directory entry name; np.save appends ".npy" to the name it is given
FileName(stem, ext) == [hidden |-> FALSE, stem |-> stem, ext |-> ext]
HiddenName(stem) == [hidden |-> TRUE, stem |-> stem, ext |-> ""]
BatchFile(k) == FileName("batch_" \o ToString(k), "npy")

\* glob('./temp/*'): "*" matches no name that starts with a dot
GlobAll(entries) == {f \in DOMAIN entries : ~f.hidden}

\* glob("./temp/*.npy")
GlobNpy(entries) == {f \in DOMAIN entries : ~f.hidden /\ f.ext = "npy"}

\* hidden_states[layer][example][0] of model(tokenizer(batch_text)): the
\* first-token vector of layer+1 for the text; each text is padded to
\* MAX_SEQ_LENGTH on its own, so the vector depends on the text and the layer
ClsVector(text, layer) == [text |-> text, layer |-> layer]

\* for example in range(len(hidden_states[0])): for layer in range(0,12): ...
BatchRows(batch_text) ==
    [k \in 1..(EncoderLayers * Len(batch_text)) |->
        LET example == (k - 1) \div EncoderLayers
            layer == (k - 1) % EncoderLayers
        IN  [embeddings |-> ClsVector(batch_text[example + 1], layer),
             layers |-> layer + 1]]

\* {'embeddings': ..., 'layers': ..., 'label': name} for every row of a file
Labelled(alpha, label) ==
    [k \in 1..Len(alpha) |->
        [embeddings |-> alpha[k].embeddings, layers |-> alpha[k].layers,
         label |-> label]]

\* what a temp directory left by an earlier execution of the script can hold
StaleRows == BatchRows(<<Example("old", 0)>>)
StaleFile == [kind |-> "file", data |-> StaleRows]
NoEntries == [f \in {} |-> StaleFile]
Entries3(a, b, c, va, vb, vc) ==
    [f \in {a, b, c} |-> IF f = a THEN va ELSE IF f = b THEN vb ELSE vc]

TempStates ==
    { [exists |-> FALSE, entries |-> NoEntries],
      [exists |-> TRUE, entries |-> NoEntries],
      [exists |-> TRUE,
       entries |-> Entries3(BatchFile(0), BatchFile(1), BatchFile(2),
                            StaleFile, StaleFile, StaleFile)],
      [exists |-> TRUE,
       entries |-> Entries3(BatchFile(1), FileName("notes", "txt"),
                            HiddenName(".DS_Store"),
                            StaleFile, StaleFile, StaleFile)],
      [exists |-> TRUE,
       entries |-> Entries3(BatchFile(0), FileName("old", ""),
                            FileName("old", ""),
                            StaleFile, [kind |-> "dir", data |-> <<>>],
                            [kind |-> "dir", data |-> <<>>])] }

\* the locals of save_representations before the call
NoFrame ==
    [name |-> "", dataset |-> <<>>, i |-> 0, count |-> 0, batch_text |-> <<>>,
     dictionary_list |-> <<>>, embeddings_list |-> <<>>, files |-> {}, j |-> 0,
     prepared |-> NoEntries, encoded |-> <<>>, written |-> <<>>,
     loaded |-> <<>>]

\* save_representations(dataset, name): the call
Call(at, dataset, label, then) ==
    /\ plot_pc = at
    /\ sr' = [NoFrame EXCEPT !.name = label, !.dataset = dataset]
    /\ plot_pc' = then
    /\ UNCHANGED <<plot_err, source_dataset, target_dataset, temp, source_df,
                   target_df, df>>

\* source_df = save_representations(source_dataset, source)
CallSource == Call("main_source", source_dataset, source, "prepare_dir")

\* target_df = save_representations(target_dataset, target)
CallTarget == Call("main_target", target_dataset, target, "prepare_dir")

\* faulty variant: prepare_dir that creates the directory but never clears it
PrepareDirKeep ==
    /\ plot_pc = "prepare_dir"
    /\ temp' = [temp EXCEPT !.exists = TRUE]
    /\ sr' = [sr EXCEPT !.prepared = temp.entries]
    /\ plot_pc' = "loop"
    /\ UNCHANGED <<plot_err, source_dataset, target_dataset, source_df,
                   target_df, df>>

\* prepare_dir()
PrepareDir ==
    /\ plot_pc = "prepare_dir"
    /\ IF ~temp.exists
       THEN /\ temp' = [exists |-> TRUE, entries |-> NoEntries]
            /\ sr' = [sr EXCEPT !.prepared = NoEntries]
            /\ plot_pc' = "loop"
            /\ UNCHANGED plot_err
       ELSE LET listed == GlobAll(temp.entries)
                subdirs == {f \in listed : temp.entries[f].kind = "dir"}
            IN  IF subdirs = {}
                THEN LET kept == [f \in DOMAIN temp.entries \ listed |->
                                     temp.entries[f]]
                     IN  /\ temp' = [temp EXCEPT !.entries = kept]
                         /\ sr' = [sr EXCEPT !.prepared = kept]
                         /\ plot_pc' = "loop"
                         /\ UNCHANGED plot_err
                \* os.remove of a directory raises; the files glob listed
                \* before it are gone
                ELSE \E removed \in SUBSET (listed \ subdirs) :
                       /\ temp' = [temp EXCEPT !.entries =
                             [f \in DOMAIN temp.entries \ removed |->
                                 temp.entries[f]]]
                       /\ plot_pc' = "error"
                       /\ plot_err' = "IsADirectoryError"
                       /\ UNCHANGED sr
    /\ UNCHANGED <<source_dataset, target_dataset, source_df, target_df, df>>

\* np.save(f"./temp/batch_{count}", dictionary_list): the file is created or
\* overwritten
NpSave(entries, f, rows) ==
    [g \in DOMAIN entries \cup {f} |->
        IF g = f THEN [kind |-> "file", data |-> rows] ELSE entries[g]]

\* one iteration of "for i in range(len(dataset))"
LoopIter ==
    /\ plot_pc = "loop"
    /\ sr.i < Len(sr.dataset)
    /\ LET text == sr.dataset[sr.i + 1]
           batch_text == Append(sr.batch_text, text)
       IN  IF sr.i % BATCH_SIZE = 0
           THEN LET dictionary_list == BatchRows(batch_text)
                    f == BatchFile(sr.count)
                IN  /\ temp' = [temp EXCEPT !.entries =
                                   NpSave(temp.entries, f, dictionary_list)]
                    /\ sr' = [sr EXCEPT !.batch_text = <<>>,
                                        !.dictionary_list = <<>>,
                                        !.count = @ + 1,
                                        !.i = @ + 1,
                                        !.encoded = Append(@, batch_text),
                                        !.written = Append(@, f)]
           ELSE /\ sr' = [sr EXCEPT !.batch_text = batch_text, !.i = @ + 1]
                /\ UNCHANGED temp
    /\ UNCHANGED <<plot_pc, plot_err, source_dataset, target_dataset,
                   source_df, target_df, df>>

\* the loop is over: embeddings_list = []; files = glob.glob("./temp/*.npy")
LoopEnd ==
    /\ plot_pc = "loop"
    /\ sr.i = Len(sr.dataset)
    /\ sr' = [sr EXCEPT !.embeddings_list = <<>>,
                        !.files = GlobNpy(temp.entries), !.j = 0]
    /\ plot_pc' = "load"
    /\ UNCHANGED <<plot_err, source_dataset, target_dataset, temp, source_df,
                   target_df, df>>

\* one iteration of "for j in range(len(files))": np.load(f"./temp/batch_{j}.npy")
LoadIter ==
    /\ plot_pc = "load"
    /\ sr.j < Cardinality(sr.files)
    /\ LET f == BatchFile(sr.j) IN
         IF f \in DOMAIN temp.entries /\ temp.entries[f].kind = "file"
         THEN /\ sr' = [sr EXCEPT
                   !.embeddings_list = @ \o Labelled(temp.entries[f].data, sr.name),
                   !.j = @ + 1,
                   !.loaded = Append(@, f)]
              /\ UNCHANGED <<plot_pc, plot_err>>
         ELSE /\ plot_pc' = "error"
              /\ plot_err' = "FileNotFoundError"
              /\ UNCHANGED sr
    /\ UNCHANGED <<source_dataset, target_dataset, temp, source_df, target_df, df>>

\* df = pd.DataFrame.from_dict(embeddings_list); return df
Return ==
    /\ plot_pc = "load"
    /\ sr.j = Cardinality(sr.files)
    /\ IF sr.name = source
       THEN /\ source_df' = [returned |-> TRUE, rows |-> sr.embeddings_list]
            /\ plot_pc' = "main_target"
            /\ UNCHANGED target_df
       ELSE /\ target_df' = [returned |-> TRUE, rows |-> sr.embeddings_list]
            /\ plot_pc' = "main_concat"
            /\ UNCHANGED source_df
    /\ UNCHANGED <<plot_err, source_dataset, target_dataset, temp, sr, df>>

\* df = pd.concat([source_df, target_df]); df.reset_index(drop=True, inplace=True)
Concat ==
    /\ plot_pc = "main_concat"
    /\ df' = [returned |-> TRUE, rows |-> source_df.rows \o target_df.rows]
    /\ plot_pc' = "main_plots"
    /\ UNCHANGED <<plot_err, source_dataset, target_dataset, temp, sr,
                   source_df, target_df>>

NoFrameYet == [returned |-> FALSE, rows |-> <<>>]

\* the script is not running
InitPlotIdle ==
    /\ plot_pc = "idle"
    /\ plot_err = ""
    /\ source_dataset = <<>>
    /\ target_dataset = <<>>
    /\ temp = [exists |-> FALSE, entries |-> NoEntries]
    /\ sr = NoFrame
    /\ source_df = NoFrameYet
    /\ target_df = NoFrameYet
    /\ df = NoFrameYet

\* the script has loaded the model and the two csv files
InitPlot ==
    /\ plot_pc = "main_source"
    /\ plot_err = ""
    /\ \E n \in 0..MaxLen : source_dataset = Dataset(source, n)
    /\ \E n \in 0..MaxLen : target_dataset = Dataset(target, n)
    /\ temp \in TempStates
    /\ sr = NoFrame
    /\ source_df = NoFrameYet
    /\ target_df = NoFrameYet
    /\ df = NoFrameYet

-----------------------------------------------------------------------------
(* Specifications *)

\* the locals of the processes before any statement has run
InitLocals ==
    /\ err = [p \in Procs |-> ""]
    /\ exp_dir = [p \in Procs |-> <<>>]
    /\ base_is_dir = [p \in Procs |-> FALSE]
    /\ hyperparams = [p \in Procs |-> EmptyMap]
    /\ dm = [p \in Procs |-> NoDm]
    /\ project_name = [p \in Procs |-> ""]
    /\ model = [p \in Procs |-> NoModel]
    /\ run_id = [p \in Procs |-> ""]
    /\ logger = [p \in Procs |-> NoLogger]
    /\ checkpoint_callback = [p \in Procs |-> NoCallback]
    /\ trainer = [p \in Procs |-> NoTrainer]
    /\ trace = [p \in Procs |-> <<>>]
    /\ files = [f \in {} |-> 0]
    /\ used_ids = {}

\* process 1 is launched; the file system is empty or holds the base
\* directory an earlier run created
InitEntry ==
    /\ \E a \in AllOptions :
         /\ args = [p \in Procs |-> a]
         /\ dirs \in {{}, Ancestors(BaseDir(a))}
    /\ pc = [p \in Procs |-> IF p = 1 THEN "check_base" ELSE "idle"]
    /\ InitLocals

\* no entry point is launched
InitIdle ==
    /\ args = [p \in Procs |->
                 Options("train_dsn", PyStr("mnli"), PyStr("4"), PyNone,
                         <<"slate", "travel">>, 1)]
    /\ dirs = {}
    /\ pc = [p \in Procs |-> "idle"]
    /\ InitLocals

InitAdapter ==
    /\ da = [state |-> "new", attrs |-> {}, hparams |-> EmptyMap]
    /\ last = NoCall
    /\ val_outputs = <<>>

Init == InitEntry /\ InitAdapter /\ InitPlotIdle

InitDa == InitIdle /\ InitAdapter /\ InitPlotIdle

Next ==
    \/ \E p \in Procs : CheckBase(p) /\ UNCHANGED <<davars, plvars>>
    \/ \E p \in Procs : MkBase(p) /\ UNCHANGED <<davars, plvars>>
    \/ \E p \in Procs : Seed(p) /\ UNCHANGED <<davars, plvars>>
    \/ \E p \in Procs : BuildHyperparams(p) /\ UNCHANGED <<davars, plvars>>
    \/ \E p \in Procs : ChooseDataModule(p) /\ UNCHANGED <<davars, plvars>>
    \/ \E p \in Procs : PrepareData(p) /\ UNCHANGED <<davars, plvars>>
    \/ \E p \in Procs : BuildModel(p) /\ UNCHANGED <<davars, plvars>>
    \/ \E p \in Procs : GenerateRunId(p) /\ UNCHANGED <<davars, plvars>>
    \/ \E p \in Procs : BuildLogger(p) /\ UNCHANGED <<davars, plvars>>
    \/ \E p \in Procs : MkCheckpointsDir(p) /\ UNCHANGED <<davars, plvars>>
    \/ \E p \in Procs : BuildCallback(p) /\ UNCHANGED <<davars, plvars>>
    \/ \E p \in Procs : BuildTrainer(p) /\ UNCHANGED <<davars, plvars>>
    \/ \E p \in Procs : SetupFit(p) /\ UNCHANGED <<davars, plvars>>
    \/ \E p \in Procs : FitCall(p) /\ UNCHANGED <<davars, plvars>>
    \/ \E p \in Procs : FitEpoch(p) /\ UNCHANGED <<davars, plvars>>
    \/ \E p \in Procs : FitRaise(p) /\ UNCHANGED <<davars, plvars>>
    \/ \E p \in Procs : FitReturn(p) /\ UNCHANGED <<davars, plvars>>
    \/ \E p \in Procs : SetupTest(p) /\ UNCHANGED <<davars, plvars>>
    \/ \E p \in Procs : TestCall(p) /\ UNCHANGED <<davars, plvars>>
    \/ \E p \in Procs : TestReturn(p) /\ UNCHANGED <<davars, plvars>>
    \/ \E p \in Procs : DumpHparams(p) /\ UNCHANGED <<davars, plvars>>
    \/ \E p \in Procs : Cleanup(p) /\ UNCHANGED <<davars, plvars>>

\* one run of train_dsn or train_ft
Spec == Init /\ [][Next]_vars

NextAdapter ==
    \/ Construct /\ UNCHANGED plvars
    \/ ConfigureOptimizers /\ UNCHANGED plvars
    \/ TrainingStep /\ UNCHANGED plvars
    \/ ValidationStep /\ UNCHANGED plvars
    \/ ValidationEpochEnd /\ UNCHANGED plvars

\* a DomainAdapter and the calls made on it
SpecAdapter == InitDa /\ [][NextAdapter]_vars

\* two runs of the same entry point are launched with the same --exp-dir and
\* --source-target; the file system is empty or holds the base directory
InitTwoRuns ==
    /\ \E entry \in Entries :
         LET a == Options(entry, PyStr("mnli"),
                          IF entry = "train_dsn" THEN PyStr("4") ELSE PyNone,
                          PyNone, <<"slate", "travel">>, 1)
         IN  /\ args = [p \in Procs |-> a]
             /\ dirs \in {{}, Ancestors(BaseDir(a))}
    /\ pc = [p \in Procs |-> "check_base"]
    /\ InitLocals

InitRace == InitTwoRuns /\ InitAdapter /\ InitPlotIdle

\* two runs whose steps interleave in any order (one after the other included)
SpecRace == InitRace /\ [][Next]_vars

InitScript == InitIdle /\ InitAdapter /\ InitPlot

NextPlot ==
    \/ CallSource /\ UNCHANGED <<pvars, davars>>
    \/ PrepareDir /\ UNCHANGED <<pvars, davars>>
    \/ LoopIter /\ UNCHANGED <<pvars, davars>>
    \/ LoopEnd /\ UNCHANGED <<pvars, davars>>
    \/ LoadIter /\ UNCHANGED <<pvars, davars>>
    \/ Return /\ UNCHANGED <<pvars, davars>>
    \/ CallTarget /\ UNCHANGED <<pvars, davars>>
    \/ Concat /\ UNCHANGED <<pvars, davars>>

\* one execution of adapter_representations.py
SpecPlot == InitScript /\ [][NextPlot]_vars


-----------------------------------------------------------------------------
(* Properties of the entry points *)

IsPrefix(a, b) == Len(a) <= Len(b) /\ a = SubSeq(b, 1, Len(a))

Terminated(p) == pc[p] \in {"done", "error"}

\* the run directory <exp_dir>/.../<run_id> of a process that has a run id
RunDir(p) == joinpath(BaseDir(args[p]), <<run_id[p]>>)

\* the files directly inside a directory
FilesIn(dir) ==
    {f \in DOMAIN files : Len(f) = Len(dir) + 1 /\ SubSeq(f, 1, Len(dir)) = dir}

\* the pipeline steps in the order the entry points run them
PipelineOrder ==
    <<"hparams", "choose_dm", "prepare_data", "model", "mk_ckpt", "setup_fit",
      "fit_call", "fit", "setup_test", "test_call", "test", "dump">>

InPipeline(step) == \E n \in 1..Len(PipelineOrder) : PipelineOrder[n] = step

Pipeline(p) == SelectSeq(trace[p], InPipeline)

Occurred(p, step) == \E n \in 1..Len(trace[p]) : trace[p][n] = step

\* C2: the pipeline steps a run has completed are always an initial part of
\* the one fixed order (mapping, data module, prepare_data, model, directories,
\* setup fit, fit, setup test, test, hparams.json), none repeated or skipped;
\* trainer.test is entered only after trainer.fit returned and hparams.json
\* exists only after trainer.test returned.
C2_LinearPipeline ==
    \A p \in Procs :
        /\ IsPrefix(Pipeline(p), PipelineOrder)
        /\ pc[p] = "testing" => Occurred(p, "fit")
        /\ (run_id[p] # "" /\ FilesIn(RunDir(p)) # {}) => Occurred(p, "test")

\* C2 witness: a run has gone through the whole pipeline
C2_Witness == pc[1] = "done" /\ Pipeline(1) = PipelineOrder

C4_MappingImmutable ==
    \A p \in Procs :
        /\ dm[p].bound => dm[p].hparams = hyperparams[p]
        /\ model[p].class # "" => model[p].hparams = hyperparams[p]
        /\ Occurred(p, "hparams") =>
              hyperparams[p]["exp_dir"] = PyStr(PathStr(BaseDir(args[p])))
        /\ Occurred(p, "dump") =>
              LET written == JsonLoad(files[joinpath(RunDir(p), <<"hparams.json">>)].obj)
              IN  /\ written = dm[p].hparams
                  /\ written = model[p].hparams
                  /\ DOMAIN written = DOMAIN hyperparams[p]

\* C4 witness: hparams.json was written after the local exp_dir was rebound
C4_Witness ==
    /\ Occurred(1, "dump")
    /\ exp_dir[1] # BaseDir(args[1])
    /\ args[1].gpu = PyNone

\* C8: with --data-module neither "mnli" nor "sa" the run can only end in an
\* error, no model is constructed, no run id generated, and the file system
\* holds nothing but the base experiment directory.
C8_BadDataModule ==
    \A p \in Procs :
        (pc[p] # "idle" /\ args[p].data_module \notin {PyStr("mnli"), PyStr("sa")})
            => /\ pc[p] \in {"check_base", "mk_base", "seed", "hparams",
                             "choose_dm", "prepare_data", "error"}
               /\ model[p].class = ""
               /\ run_id[p] = ""
               /\ used_ids = {}
               /\ dirs \subseteq Ancestors(BaseDir(args[p]))
               /\ DOMAIN files = {}

\* C8 witness: such a run died at dm.prepare_data() having created the base
\* directory
C8_Witness ==
    /\ args[1].data_module = PyStr("qa")
    /\ pc[1] = "error"
    /\ err[1] = "UnboundLocalError"
    /\ ~base_is_dir[1]
    /\ BaseDir(args[1]) \in dirs

\* the first epoch (from 0) whose monitored value is the best of the history
BestEpoch(monitored, mode) ==
    CHOOSE e \in 1..Len(monitored) :
        /\ \A n \in 1..Len(monitored) :
              IF mode = "max" THEN monitored[n] <= monitored[e]
              ELSE monitored[n] >= monitored[e]
        /\ \A n \in 1..(e - 1) : monitored[n] # monitored[e]

\* C9: after any number of validation epochs the checkpoints directory holds at
\* most one checkpoint, and after at least one epoch exactly the checkpoint of
\* the best epoch so far: maximum source_val/f1 in train_dsn, minimum val/loss
\* in train_ft.
C9_BestCheckpoint ==
    \A p \in Procs :
        trainer[p].bound =>
            LET kept == FilesIn(joinpath(RunDir(p), <<"checkpoints">>))
                seen == trainer[p].monitored
                mode == IF args[p].entry = "train_dsn" THEN "max" ELSE "min"
            IN  /\ Cardinality(kept) <= 1
                /\ Len(seen) > 0 =>
                      /\ Cardinality(kept) = 1
                      /\ \A f \in kept :
                            /\ files[f].kind = "ckpt"
                            /\ files[f].epoch + 1 = BestEpoch(seen, mode)
                            /\ files[f].score = seen[BestEpoch(seen, mode)]

\* C9 witness: a later, worse epoch left the earlier checkpoint in place
C9_Witness ==
    /\ args[1].entry = "train_ft"
    /\ Len(trainer[1].monitored) = 2
    /\ trainer[1].monitored[1] < trainer[1].monitored[2]
    /\ \E f \in FilesIn(joinpath(RunDir(1), <<"checkpoints">>)) : files[f].epoch = 0

-----------------------------------------------------------------------------
(* Properties of DomainAdapter *)

StepDone == last.op \in {"training_step", "validation_step"}

StepKey == IF last.op = "training_step" THEN "train/divergence" ELSE "val/divergence"

\* the two tensors hold the same rows, whatever their order
SameRows(a, b) ==
    /\ Len(a) = Len(b)
    /\ \A v \in {a[n] : n \in 1..Len(a)} \cup {b[n] : n \in 1..Len(b)} :
          Cardinality({n \in 1..Len(a) : a[n] = v})
              = Cardinality({n \in 1..Len(b) : b[n] = v})

C5_Claim ==
    (StepDone /\ last.batch.keys = PairKeys) =>
        /\ last.status = "ok"
        /\ last.ret_key = StepKey
        /\ last.keys_read \subseteq PairKeys

\* C6: every layer is split into exactly the source rows and the target rows,
\* and the divergence is the sum over all layers of criterion.calculate.
C6_Claim ==
    StepDone =>
        /\ last.status = "ok"
        /\ Len(last.parts) = NumLayers
        /\ \A layer \in 1..NumLayers :
              /\ last.parts[layer][1] = forward(last.batch.source)[layer]
              /\ last.parts[layer][2] = forward(last.batch.target)[layer]
        /\ last.ret =
              SumSeq([layer \in 1..NumLayers |->
                        calculate(forward(last.batch.source)[layer],
                                  forward(last.batch.target)[layer])])

\* C7: configure_optimizers completes with one optimizer and one
\* reduce-on-plateau scheduler entry monitoring train/divergence per epoch.
C7_Claim ==
    last.op = "configure_optimizers" =>
        /\ last.status = "ok"
        /\ last.optimizers = 1
        /\ Len(last.schedulers) = 1
        /\ last.schedulers[1].mode = "min"
        /\ last.schedulers[1].monitor = "train/divergence"
        /\ last.schedulers[1].interval = "epoch"

\* C10: validation_epoch_end logs under val/divergence the arithmetic mean of
\* what the epoch's validation steps returned and leaves the outputs as they
\* were; each returned value is the last element the loop has collected.
C10_EpochMean ==
    /\ (last.op = "validation_step" /\ last.status = "ok") =>
          /\ Len(val_outputs) > 0
          /\ val_outputs[Len(val_outputs)]["val/divergence"] = last.ret
    /\ last.op = "validation_epoch_end" =>
          /\ last.status = "ok"
          /\ last.log_name = "val/divergence"
          /\ last.log_value.den > 0
          /\ last.log_value.num * Len(last.handed) =
                last.log_value.den
                  * SumSeq([n \in 1..Len(last.handed) |->
                              last.handed[n]["val/divergence"]])
          /\ last.handed_after = last.handed

\* C10 witness: an epoch of two steps with different divergences was averaged
C10_Witness ==
    /\ last.op = "validation_epoch_end"
    /\ Len(last.handed) = 2
    /\ last.handed[1]["val/divergence"] # last.handed[2]["val/divergence"]
    /\ last.log_value.num # 0

-----------------------------------------------------------------------------
(* Properties of the plotting script *)

\* a save_representations call has returned and its locals are still in sr
CallReturned == plot_pc \in {"main_target", "main_concat", "main_plots"}

\* the data frame the last call returned
Result == IF sr.name = source THEN source_df ELSE target_df

\* every row carries the label and is the vector of a text of the dataset
OwnRows(frame, dataset, label) ==
    \A k \in 1..Len(frame.rows) :
        /\ frame.rows[k].label = label
        /\ \E e \in 1..Len(dataset) :
              frame.rows[k].embeddings.text = dataset[e]

\* C11: the data frame save_representations(dataset, name) returns holds only
\* rows computed from that call's dataset, all labelled name: prepare_dir
\* leaves no entry in ./temp that glob lists, the batch files the call writes
\* are batch_0 .. batch_(count-1) without gaps, each of them is loaded exactly
\* once and in that order, so no batch file of an earlier call is loaded.
C11_OwnRowsOnly ==
    /\ (source_df.returned => OwnRows(source_df, source_dataset, source))
    /\ (target_df.returned => OwnRows(target_df, target_dataset, target))
    /\ (plot_pc \in {"loop", "load"} \cup {"main_target", "main_concat",
                                           "main_plots"}
           => /\ GlobAll(sr.prepared) = {}
              /\ sr.written = [k \in 1..sr.count |-> BatchFile(k - 1)]
              /\ IsPrefix(sr.loaded, sr.written))
    /\ (CallReturned
           => /\ sr.loaded = sr.written
              /\ GlobNpy(temp.entries) = {sr.written[k] : k \in 1..sr.count}
              /\ Result.returned)

\* the target call has returned rows after a source call that wrote more
\* batch files than the target call did
C11_Witness ==
    /\ plot_pc = "main_concat"
    /\ sr.name = target
    /\ Len(source_dataset) > BATCH_SIZE
    /\ sr.count = 1
    /\ Len(target_df.rows) = EncoderLayers

\* the examples of the dataset that are part of the encoded batch b
InBatch(b) ==
    {e \in 1..Len(sr.dataset) :
        \E m \in 1..Len(sr.encoded[b]) : sr.encoded[b][m] = sr.dataset[e]}

\* C12: for a dataset of any length n >= 0, save_representations puts every
\* example into exactly one encoded batch of at most BATCH_SIZE examples and
\* the returned data frame holds 12 rows per example, 12*n rows in all; no
\* example at the end of the dataset is left unencoded.
C12_Claim ==
    CallReturned =>
        /\ \A b \in 1..Len(sr.encoded) : Len(sr.encoded[b]) <= BATCH_SIZE
        /\ \A e \in 1..Len(sr.dataset) :
              Cardinality({b \in 1..Len(sr.encoded) : e \in InBatch(b)}) = 1
        /\ Len(Result.rows) = EncoderLayers * Len(sr.dataset)
        /\ sr.batch_text = <<>>

-----------------------------------------------------------------------------
(* Properties of two runs on one experiment directory *)

\* the run raised at exp_dir.mkdir(parents=True) of the base directory
FailedAtBase(p) ==
    /\ pc[p] = "error"
    /\ err[p] = "FileExistsError"
    /\ trace[p] = <<"check_base">>

\* the two runs have a run directory, a checkpoints directory or an
\* hparams.json file in common
SharedRun(p, q) ==
    /\ run_id[p] # ""
    /\ run_id[q] # ""
    /\ \/ RunDir(p) = RunDir(q)
       \/ joinpath(RunDir(p), <<"checkpoints">>) = joinpath(RunDir(q), <<"checkpoints">>)
       \/ joinpath(RunDir(p), <<"hparams.json">>) = joinpath(RunDir(q), <<"hparams.json">>)

\* C13: for two runs of train_dsn (or train_ft) started with the same
\* --exp-dir and --source-target, one after the other or with their steps
\* interleaved, neither run fails at the creation of the base experiment
\* directory, and as their run ids differ they never share a run directory,
\* a checkpoints directory or an hparams.json file.
C13_Claim ==
    \A p \in Procs : \A q \in Procs \ {p} :
        /\ ~FailedAtBase(p)
        /\ ~SharedRun(p, q)

=============================================================================
